---- MODULE Spec2Model ----
(***************************************************************************)
(* newspaper_pdf (src/app.py): a Flask handler that stores uploaded page   *)
(* scans, ranks them by (priority keyword, base name, page number, input   *)
(* index), scales and labels every page and writes one PDF.                *)
(*                                                                         *)
(* Strings are sequences of one-character strings, so that lower(),        *)
(* substring search, the PAGE_RE regular expression, strip() and the       *)
(* code-point order of str comparison are all computed, not assumed.       *)
(* Optional values are <<>> (None) or <<v>>.                               *)
(***************************************************************************)
EXTENDS Integers, Sequences, FiniteSets, TLC

(***************************************************************************)
(* Characters                                                              *)
(***************************************************************************)
\* The characters of the model in code-point order (a subset of ASCII).
Ascii ==
  << " ", "(", ")", ",", "-", ".",
     "0", "1", "2", "3", "4", "5", "6", "7", "8", "9",
     "A", "B", "C", "D", "E", "F", "G", "H", "I", "J", "K", "L", "M",
     "N", "O", "P", "Q", "R", "S", "T", "U", "V", "W", "X", "Y", "Z",
     "_",
     "a", "b", "c", "d", "e", "f", "g", "h", "i", "j", "k", "l", "m",
     "n", "o", "p", "q", "r", "s", "t", "u", "v", "w", "x", "y", "z" >>

Chars == { Ascii[i] : i \in 1..Len(Ascii) }

\* The sequence f (a function on 1..n) as an explicit tuple
Tuple(f) == f \o <<>>

\* The index of c in the tuple t
IndexIn(c, t) == CHOOSE i \in 1..Len(t) : t[i] = c

\* ord(c), up to an order-preserving renumbering
Ord(c) == IndexIn(c, Ascii)

UpperLetters ==
  << "A", "B", "C", "D", "E", "F", "G", "H", "I", "J", "K", "L", "M",
     "N", "O", "P", "Q", "R", "S", "T", "U", "V", "W", "X", "Y", "Z" >>

LowerLetters ==
  << "a", "b", "c", "d", "e", "f", "g", "h", "i", "j", "k", "l", "m",
     "n", "o", "p", "q", "r", "s", "t", "u", "v", "w", "x", "y", "z" >>

DecimalDigits == << "0", "1", "2", "3", "4", "5", "6", "7", "8", "9" >>

Uppers == { UpperLetters[i] : i \in 1..26 }

Digits == { DecimalDigits[i] : i \in 1..10 }

\* c.lower() for one character
LowerChar(c) == IF c \in Uppers THEN LowerLetters[IndexIn(c, UpperLetters)] ELSE c

\* str.lower()
Lower(s) == Tuple([ i \in 1..Len(s) |-> LowerChar(s[i]) ])

\* int(c) of one digit character
DigitVal(c) == IndexIn(c, DecimalDigits) - 1

\* s[i-1:] of Python, for a 1-based i
Drop(s, i) == SubSeq(s, i, Len(s))

\* s[:i-1] of Python, for a 1-based i
Take(s, i) == SubSeq(s, 1, i - 1)

\* Whether s[i:].startswith(t), 1-based
StartsAt(s, t, i) ==
  /\ i + Len(t) - 1 <= Len(s)
  /\ \A j \in 1..Len(t) : s[i + j - 1] = t[j]

\* The operator `kw in name' on strings
Contains(s, t) == \E i \in 1..(Len(s) + 1) : StartsAt(s, t, i)

\* Python's < on str: the first differing code point decides, a proper
\* prefix is smaller.
StrLess(a, b) ==
  LET common == { i \in 1..Len(a) : i <= Len(b) /\ a[i] # b[i] }
  IN  IF common = {}
      THEN Len(a) < Len(b)
      ELSE LET i == CHOOSE k \in common : \A m \in common : k <= m
           IN  Ord(a[i]) < Ord(b[i])

\* str.strip(cs): characters of the set cs removed from both ends
Strip(s, cs) ==
  LET keep == { i \in 1..Len(s) : s[i] \notin cs }
  IN  IF keep = {} THEN <<>>
      ELSE LET lo == CHOOSE i \in keep : \A j \in keep : i <= j
               hi == CHOOSE i \in keep : \A j \in keep : i >= j
           IN  SubSeq(s, lo, hi)

(***************************************************************************)
(* PAGE_RE = re.compile(r'page\s*no\.?\s*(\d+)', re.IGNORECASE)            *)
(* The classes that follow one another in the pattern are disjoint, so a   *)
(* greedy left-to-right scan finds exactly the match of the backtracking   *)
(* engine.                                                                 *)
(***************************************************************************)
\* \s restricted to the model's characters
Whitespace == { " " }

\* The first index >= i of s that holds no character of cs (Len(s)+1 if none)
SkipWhile(s, i, cs) ==
  LET stop == { j \in i..Len(s) : s[j] \notin cs }
  IN  IF stop = {} THEN Len(s) + 1
      ELSE CHOOSE j \in stop : \A k \in stop : j <= k

\* Whether t, a lowercase literal, matches s at index i whatever the case
\* (re.IGNORECASE)
MatchesNoCase(s, t, i) ==
  /\ i + Len(t) - 1 <= Len(s)
  /\ \A j \in 1..Len(t) : LowerChar(s[i + j - 1]) = t[j]

\* The match of PAGE_RE anchored at index i of s: <<>> when there is none,
\* else << [digits |-> first index of group 1, end |-> index after the match] >>.
PageReMatchAt(s, i) ==
  LET lit  == << "p", "a", "g", "e" >>
      no   == << "n", "o" >>
      a    == SkipWhile(s, i + Len(lit), Whitespace)
      b    == a + Len(no)
      c    == IF b <= Len(s) /\ s[b] = "." THEN b + 1 ELSE b
      d    == SkipWhile(s, c, Whitespace)
      e    == SkipWhile(s, d, Digits)
  IN  IF MatchesNoCase(s, lit, i) /\ MatchesNoCase(s, no, a) /\ e > d
      THEN << [digits |-> d, end |-> e] >>
      ELSE <<>>

\* PAGE_RE.search(s) from index i on: <<>> or << [start, digits, end] >>
RECURSIVE PageReSearchFrom(_, _)
PageReSearchFrom(s, i) ==
  IF i > Len(s) THEN <<>>
  ELSE LET m == PageReMatchAt(s, i)
       IN  IF m # <<>>
           THEN << [start |-> i, digits |-> m[1].digits, end |-> m[1].end] >>
           ELSE PageReSearchFrom(s, i + 1)

\* PAGE_RE.search(name)
PageReSearch(s) == PageReSearchFrom(s, 1)

\* PAGE_RE.sub('', name): every non-overlapping match removed, leftmost first
RECURSIVE PageReSubFrom(_, _)
PageReSubFrom(s, i) ==
  LET m == PageReSearchFrom(s, i)
  IN  IF m = <<>> THEN Drop(s, i)
      ELSE SubSeq(s, i, m[1].start - 1) \o PageReSubFrom(s, m[1].end)

\* Faulty variant of PageReSub: only the first match is removed
PageReSub_first(s) ==
  LET m == PageReSearchFrom(s, 1)
  IN  IF m = <<>> THEN s
      ELSE SubSeq(s, 1, m[1].start - 1) \o Drop(s, m[1].end)

PageReSub(s) == PageReSubFrom(s, 1)

\* int(digits) for a string of decimal digits
RECURSIVE IntOf(_)
IntOf(ds) ==
  IF ds = <<>> THEN 0
  ELSE 10 * IntOf(Take(ds, Len(ds))) + DigitVal(ds[Len(ds)])

(***************************************************************************)
(* Python floats (IEEE 754 binary64, round to nearest, ties to even).      *)
(* scale_image computes max_w / w, min(), w*scale and int() on floats, and *)
(* the roundings decide the pixel counts, so they are computed exactly.    *)
(* A positive float is [d |-> <<d0, d1, d2, d3, d4>>, e |-> exponent]: the *)
(* 53-bit significand as its leading bit d0 = 1 followed by four 13-bit    *)
(* limbs, the value (d0 + d1/B + d2/B^2 + d3/B^3 + d4/B^4) * 2^e with      *)
(* B = 2^13. Limbs keep every intermediate below 2^31 for integers below   *)
(* 2^17.                                                                   *)
(***************************************************************************)
LimbBase == 2^13

Limbs == 4

\* 1.0
FOne == [ d |-> << 1, 0, 0, 0, 0 >>, e |-> 0 ]

\* The smallest k with a * 2^k >= b
RECURSIVE ShiftUp(_, _)
ShiftUp(a, b) == IF a >= b THEN 0 ELSE 1 + ShiftUp(2 * a, b)

\* The n next base-B quotient digits of r/b (0 <= r < b), then the remainder
RECURSIVE DivLimbs(_, _, _)
DivLimbs(r, b, n) ==
  IF n = 0 THEN << r >>
  ELSE << (r * LimbBase) \div b >> \o DivLimbs((r * LimbBase) % b, b, n - 1)

\* d + 1 in the last place; a carry out of d0 leaves d0 = 2
RECURSIVE IncLimbs(_)
IncLimbs(d) ==
  LET n == Len(d)
  IN  IF n = 1 THEN << d[1] + 1 >>
      ELSE IF d[n] + 1 < LimbBase
           THEN [ d EXCEPT ![n] = d[n] + 1 ]
           ELSE Append(IncLimbs(SubSeq(d, 1, n - 1)), 0)

\* The float of significand d and exponent e, one unit in the last place
\* higher when up holds (1.11..1 rounds up to 1.0 * 2^(e+1))
FRound(d, e, up) ==
  IF ~up THEN [ d |-> d, e |-> e ]
  ELSE LET u == IncLimbs(d)
       IN  IF u[1] = 2 THEN [ d |-> FOne.d, e |-> e + 1 ]
           ELSE [ d |-> u, e |-> e ]

\* float(a) / float(b) for integers 0 < a < b: the correctly rounded quotient
FDiv(a, b) ==
  LET k   == ShiftUp(a, b)
      q   == DivLimbs(a * (2^k) - b, b, Limbs)
      d   == << 1 >> \o SubSeq(q, 1, Limbs)
      rem == q[Limbs + 1]
      up  == 2 * rem > b \/ (2 * rem = b /\ d[Limbs + 1] % 2 = 1)
  IN  FRound(d, -k, up)

\* f < g on positive floats
FLess(f, g) ==
  \/ f.e < g.e
  \/ /\ f.e = g.e
     /\ \E i \in 1..(Limbs + 1) :
          /\ f.d[i] < g.d[i]
          /\ \A j \in 1..(i - 1) : f.d[j] = g.d[j]

\* min(f, g): Python returns the first argument unless the second is smaller
FMin(f, g) == IF FLess(g, f) THEN g ELSE f

\* The exact product n * d limb by limb from the last: <<p0, p1, .., p4>> with
\* p1..p4 < B and everything that carries out kept in p0
RECURSIVE MulLimbs(_, _, _)
MulLimbs(d, n, carry) ==
  LET k == Len(d)
      t == d[k] * n + carry
  IN  IF k = 1 THEN << t >>
      ELSE Append(MulLimbs(SubSeq(d, 1, k - 1), n, t \div LimbBase), t % LimbBase)

\* x shifted right by one bit: x is [p |-> limbs, g |-> the last bit shifted
\* out, s |-> whether a 1 was shifted out before it]
Shr1(x) ==
  [ p |-> Tuple([ i \in 1..Len(x.p) |->
              (IF i = 1 THEN 0 ELSE (x.p[i - 1] % 2) * (LimbBase \div 2)) + x.p[i] \div 2 ]),
    g |-> x.p[Len(x.p)] % 2,
    s |-> x.s \/ x.g = 1 ]

\* x shifted right until its leading limb is 1, with the number of shifts
RECURSIVE Normalize(_, _)
Normalize(x, t) == IF x.p[1] <= 1 THEN [ x |-> x, t |-> t ] ELSE Normalize(Shr1(x), t + 1)

\* float(n) * f for an integer n >= 1: the exact product rounded to 53 bits
FMulInt(n, f) ==
  LET nz == Normalize([ p |-> MulLimbs(f.d, n, 0), g |-> 0, s |-> FALSE ], 0)
      r  == nz.x
      up == r.g = 1 /\ (r.s \/ r.p[Limbs + 1] % 2 = 1)
  IN  FRound(r.p, f.e + nz.t, up)

\* int(f) for a positive float below 2^26: truncation toward zero. The
\* integer part is what is left of d0.d1 (as d0 * B + d1) and then d2 after
\* the fraction bits are shifted out.
FTrunc(f) ==
  IF f.e < 0 THEN 0
  ELSE IF f.e <= 13
       THEN (f.d[1] * LimbBase + f.d[2]) \div (2^(13 - f.e))
       ELSE (f.d[1] * LimbBase + f.d[2]) * (2^(f.e - 13)) + f.d[3] \div (2^(26 - f.e))

(***************************************************************************)
(* scale_image                                                             *)
(***************************************************************************)
None == <<>>

Some(v) == << v >>

\* The float `scale' of scale_image for an image of size <<w, h>>
ScaleFactor(size, max_w, max_h) ==
  LET w  == size[1]
      h  == size[2]
      s1 == IF max_w # None /\ w > max_w[1] THEN FMin(FOne, FDiv(max_w[1], w)) ELSE FOne
  IN  IF max_h # None /\ h > max_h[1] THEN FMin(s1, FDiv(max_h[1], h)) ELSE s1

\* scale_image(im, max_w, max_h).size for im.size = size: im.size when im is
\* returned, else the size (int(w*scale), int(h*scale)) asked of im.resize
scale_image(size, max_w, max_h) ==
  IF max_w = None /\ max_h = None THEN size
  ELSE LET scale == ScaleFactor(size, max_w, max_h)
       IN  IF FLess(scale, FOne)
           THEN << FTrunc(FMulInt(size[1], scale)), FTrunc(FMulInt(size[2], scale)) >>
           ELSE size

(***************************************************************************)
(* Paths and file names                                                    *)
(***************************************************************************)
\* The last index of "." in s, 0 when there is none (str.rfind + 1)
RFindDot(s) ==
  LET dots == { i \in 1..Len(s) : s[i] = "." }
  IN  IF dots = {} THEN 0 ELSE CHOOSE i \in dots : \A j \in dots : i >= j

\* Whether pathlib splits a suffix off the name s: the last dot is neither
\* the first nor the last character
HasSuffix(s) == LET i == RFindDot(s) IN 1 < i /\ i < Len(s)

\* Path(s).suffix for a name without directory separators
Suffix(s) == IF HasSuffix(s) THEN Drop(s, RFindDot(s)) ELSE <<>>

\* Path(s).stem for a name without directory separators
Stem(s) == IF HasSuffix(s) THEN Take(s, RFindDot(s)) ELSE s

\* s.split() joined by "_": runs of whitespace become one "_", and
\* whitespace at the ends disappears
RECURSIVE JoinWords(_)
JoinWords(s) ==
  LET a == SkipWhile(s, 1, Whitespace)
      b == SkipWhile(s, a, Chars \ Whitespace)
      c == SkipWhile(s, b, Whitespace)
  IN  IF a > Len(s) THEN <<>>
      ELSE IF c > Len(s) THEN SubSeq(s, a, b - 1)
           ELSE SubSeq(s, a, b - 1) \o << "_" >> \o JoinWords(Drop(s, c))

\* The characters werkzeug keeps: [A-Za-z0-9_.-]
SafeChars == Chars \ { " ", "(", ")", "," }

\* werkzeug.utils.secure_filename on a name of ASCII characters without
\* directory separators: words joined by "_", unsafe characters dropped,
\* "." and "_" stripped from both ends
secure_filename(s) ==
  Strip(SelectSeq(JoinWords(s), LAMBDA c : c \in SafeChars), { ".", "_" })

\* EXTS = {'.jpg', '.jpeg', '.png'}
EXTS ==
  { << ".", "j", "p", "g" >>, << ".", "j", "p", "e", "g" >>, << ".", "p", "n", "g" >> }

\* DEFAULT_PRIORITY
DEFAULT_PRIORITY ==
  << << "d", "a", "i", "n", "i", "k", " ", "b", "h", "a", "s", "k", "a", "r" >>,
     << "c", "i", "t", "y", " ", "b", "h", "a", "s", "k", "a", "r" >>,
     << "r", "a", "j", "a", "s", "t", "h", "a", "n", " ", "p", "a", "t", "r", "i", "k", "a" >>,
     << "f", "i", "r", "s", "t", " ", "i", "n", "d", "i", "a" >>,
     << "s", "a", "c", "h", " ", "b", "e", "d", "h", "a", "d", "a", "k" >> >>

(***************************************************************************)
(* build_sort_key_with_map and the ranking step of generate_pdf            *)
(***************************************************************************)
\* The name a page is known by: filename_map[str(path)] when the map is
\* non-empty and holds the path, else path.stem. filename_map is a function
\* from paths to names; None and {} are both the empty function (the code
\* tests only its truth value).
NameOf(path, filename_map) ==
  IF DOMAIN filename_map # {} /\ path \in DOMAIN filename_map
  THEN filename_map[path]
  ELSE Stem(path)

\* pr_rank: the index of the first keyword found in name, len + 1 for none
PrRank(name, priority_l) ==
  LET hits == { i \in 1..Len(priority_l) : Contains(name, priority_l[i]) }
  IN  IF hits = {} THEN Len(priority_l) + 1
      ELSE (CHOOSE i \in hits : \A j \in hits : i <= j) - 1

\* Faulty variant of PageNum: only the first digit of the token is read
PageNum_first_digit(name) ==
  LET m == PageReSearch(name)
  IN  IF m = <<>> THEN 0 ELSE IntOf(SubSeq(name, m[1].digits, m[1].digits))

\* page_num = int(m.group(1)) if m else 0
PageNum(name) ==
  LET m == PageReSearch(name)
  IN  IF m = <<>> THEN 0 ELSE IntOf(SubSeq(name, m[1].digits, m[1].end - 1))

\* base = PAGE_RE.sub('', name).strip('- _')
BaseName(name) == Strip(PageReSub(name), { "-", " ", "_" })

\* Faulty variant of sort_key: the priority list is ignored
sort_key_no_priority(pair, priority, filename_map) ==
  LET name == Lower(NameOf(pair[2], filename_map))
  IN  << 0, BaseName(name), PageNum(name), pair[1] >>

\* Faulty variant of sort_key: among equal names the later input comes first
sort_key_last_first(pair, priority, filename_map) ==
  LET name == Lower(NameOf(pair[2], filename_map))
      priority_l == Tuple([ i \in 1..Len(priority) |-> Lower(priority[i]) ])
  IN  << PrRank(name, priority_l), BaseName(name), PageNum(name), 0 - pair[1] >>

\* sort_key((idx, path)) = (pr_rank, base, page_num, idx)
sort_key(pair, priority, filename_map) ==
  LET name == Lower(NameOf(pair[2], filename_map))
      priority_l == Tuple([ i \in 1..Len(priority) |-> Lower(priority[i]) ])
  IN  << PrRank(name, priority_l), BaseName(name), PageNum(name), pair[1] >>

\* Python's < on the key tuples: the first differing component decides
KeyLess(a, b) ==
  \/ a[1] < b[1]
  \/ a[1] = b[1] /\ StrLess(a[2], b[2])
  \/ a[1] = b[1] /\ a[2] = b[2] /\ a[3] < b[3]
  \/ a[1] = b[1] /\ a[2] = b[2] /\ a[3] = b[3] /\ a[4] < b[4]

\* The item x = (idx, path) put into the sorted list xs after every item
\* whose key is not greater; key[idx + 1] is the key of item idx
RECURSIVE InsertByKey(_, _, _)
InsertByKey(x, xs, key) ==
  IF xs = <<>> THEN << x >>
  ELSE IF KeyLess(key[x[1] + 1], key[Head(xs)[1] + 1])
       THEN << x >> \o xs
       ELSE << Head(xs) >> \o InsertByKey(x, Tail(xs), key)

RECURSIVE SortByKey(_, _)
SortByKey(xs, key) ==
  IF xs = <<>> THEN <<>>
  ELSE InsertByKey(xs[Len(xs)], SortByKey(Take(xs, Len(xs)), key), key)

\* indexed = list(enumerate(image_paths)); indexed.sort(key=...): list.sort
\* is stable and computes each key once
RankStep(paths, priority, filename_map) ==
  LET indexed == Tuple([ i \in 1..Len(paths) |-> << i - 1, paths[i] >> ])
      key == Tuple([ i \in 1..Len(paths) |-> sort_key(indexed[i], priority, filename_map) ])
  IN  SortByKey(indexed, key)

(***************************************************************************)
(* Rendering                                                               *)
(***************************************************************************)
\* padding_y of add_label
padding_y == 10

\* font_size when the form gives none
DefaultFontSize == 28

\* text_h of add_label: the height of textbbox for the label in the loaded
\* font. Pillow decides it; here a font is [text_h |-> the height of a line
\* of text], and the empty string has an empty box.
TextHeight(label_text, font) == IF label_text = <<>> THEN 0 ELSE font.text_h

\* add_label(image, label_text, font).size for image.size = size
add_label(size, label_text, font) ==
  LET box_h == TextHeight(label_text, font) + padding_y * 2
  IN  << size[1], size[2] + box_h >>

\* Faulty variant of LabelFor: an empty override counts as none
LabelFor_truthy(p, all_label, filename_map) ==
  IF all_label # None /\ all_label[1] # <<>> THEN all_label[1] ELSE NameOf(p, filename_map)

\* label = all_label if all_label is not None else <the page's name>, the
\* same in both branches of generate_pdf
LabelFor(p, all_label, filename_map) ==
  IF all_label # None THEN all_label[1] ELSE NameOf(p, filename_map)

\* Faulty variant of ProcessPage: no_label is ignored
ProcessPage_always_label(src, content, p, o, filename_map, font) ==
  LET scaled == scale_image(content.size, o.max_w, o.max_h)
      label == LabelFor(p, o.all_label, filename_map)
  IN  [ src |-> src, size |-> add_label(scaled, label, font), label |-> Some(label) ]

\* The body of the try block of generate_pdf for a page that decodes: the
\* image appended to processed
ProcessPage(src, content, p, o, filename_map, font) ==
  LET scaled == scale_image(content.size, o.max_w, o.max_h)
  IN  IF ~o.no_label
      THEN LET label == LabelFor(p, o.all_label, filename_map)
           IN  [ src |-> src, size |-> add_label(scaled, label, font), label |-> Some(label) ]
      ELSE [ src |-> src, size |-> scaled, label |-> None ]

\* Whether Image.open(p).convert('RGB') raises: no such file, or bytes that
\* are no image
DecodeFails(p, d) == p \notin DOMAIN d \/ ~d[p].ok

(***************************************************************************)
(* Form parsing of generate()                                              *)
(***************************************************************************)
\* s.split(',')
RECURSIVE SplitComma(_)
SplitComma(s) ==
  LET commas == { j \in 1..Len(s) : s[j] = "," }
  IN  IF commas = {} THEN << s >>
      ELSE LET j == CHOOSE c \in commas : \A d \in commas : c <= d
           IN  << Take(s, j) >> \o SplitComma(Drop(s, j + 1))

\* [p.strip() for p in priority_str.split(',') if p.strip()]
ParsePriority(priority_str) ==
  LET parts == SplitComma(priority_str)
      stripped == Tuple([ j \in 1..Len(parts) |-> Strip(parts[j], Whitespace) ])
  IN  SelectSeq(stripped, LAMBDA q : q # <<>>)

\* ','.join(DEFAULT_PRIORITY) parsed again gives DEFAULT_PRIORITY: no entry
\* holds a comma or has whitespace at its ends
FormPriority(f) == IF f = None THEN DEFAULT_PRIORITY ELSE ParsePriority(f[1])

\* all_label = request.form.get('all_label', None); '' becomes None
FormAllLabel(f) == IF f = None \/ f = Some(<<>>) THEN None ELSE f

\* int(v) if v and v != '' else None
FormInt(f) == IF f = None \/ f = Some(<<>>) THEN None ELSE Some(IntOf(f[1]))

\* request.form.get('no_label', 'false') == 'true'
FormNoLabel(f) == f = Some(<< "t", "r", "u", "e" >>)

\* lines 151-161
ParseOptions(form) ==
  [ priority  |-> FormPriority(form.priority),
    all_label |-> FormAllLabel(form.all_label),
    font_size |-> DefaultFontSize,
    max_w     |-> FormInt(form.max_width),
    max_h     |-> FormInt(form.max_height),
    no_label  |-> FormNoLabel(form.no_label) ]

\* Whether generate() keeps an upload: the suffix of its sanitized name,
\* lowercased, is an image extension
Accepts(original_name) == Lower(Suffix(secure_filename(original_name))) \in EXTS

(***************************************************************************)
(* State                                                                   *)
(***************************************************************************)
VARIABLES
  pc,            \* where the program is
  caller,        \* who called generate_pdf: "generate", "direct" or "none"
  request,       \* the POST /generate request: [files, form], <<>> before it
  i,             \* generate(): the index of `for file in files'
  image_paths,   \* generate(): image_paths; generate_pdf: its argument
  filename_map,  \* generate(): filename_map; generate_pdf: its argument
  opts,          \* the other arguments of generate_pdf
  disk,          \* the files under temp_dir: path -> content
  font,          \* generate_pdf: the font load_font returned
  indexed,       \* generate_pdf: the sorted list of (idx, path)
  k,             \* generate_pdf: the index of `for p in ordered'
  processed,     \* generate_pdf: processed
  warnings,      \* the paths of the "Warning: Skipping" lines printed
  output,        \* the document at output_path: None, or Some(its pages)
  ret,           \* how generate_pdf ended: None, or Some([raised, count])
  response,      \* the response of generate(): None or Some([status, error, file])
  args,          \* the arguments of a function called on its own
  result         \* and its result

vars ==
  << pc, caller, request, i, image_paths, filename_map, opts, disk, font, indexed,
     k, processed, warnings, output, ret, response, args, result >>

handler_vars == << request, i, response >>

pdf_vars == << font, indexed, k, processed, warnings, output, ret >>

call_vars == << caller, image_paths, filename_map, opts, disk >>

pure_vars == << args, result >>

NoOpts ==
  [ priority |-> <<>>, all_label |-> None, font_size |-> DefaultFontSize,
    max_w |-> None, max_h |-> None, no_label |-> FALSE ]

\* The state before anything is called
Blank ==
  /\ caller = "none"
  /\ request = <<>>
  /\ i = 0
  /\ image_paths = <<>>
  /\ filename_map = <<>>
  /\ opts = NoOpts
  /\ disk = <<>>
  /\ font = <<>>
  /\ indexed = <<>>
  /\ k = 0
  /\ processed = <<>>
  /\ warnings = <<>>
  /\ output = None
  /\ ret = None
  /\ response = None

\* ordered = [p for _, p in indexed]
ordered == Tuple([ j \in 1..Len(indexed) |-> indexed[j][2] ])

(***************************************************************************)
(* generate(): POST /generate                                              *)
(***************************************************************************)
Reply(status, error, file) == Some([ status |-> status, error |-> error, file |-> file ])

\* Lines 143-168: the request arrives; the early 400 answers, the options,
\* the empty image_paths and filename_map
generate_begin(req) ==
  /\ pc = "idle"
  /\ request' = req
  /\ IF Len(req.files) = 0
     THEN /\ response' = Reply(400, "No files uploaded", None)
          /\ pc' = "done"
          /\ UNCHANGED << i, opts >>
     ELSE IF req.files[1].filename = <<>>
     THEN /\ response' = Reply(400, "No files selected", None)
          /\ pc' = "done"
          /\ UNCHANGED << i, opts >>
     ELSE /\ opts' = ParseOptions(req.form)
          /\ i' = 1
          /\ pc' = "save"
          /\ UNCHANGED response
  /\ UNCHANGED << caller, image_paths, filename_map, disk >>
  /\ UNCHANGED pdf_vars
  /\ UNCHANGED pure_vars

\* Lines 169-178: one turn of `for file in files'
generate_save ==
  /\ pc = "save"
  /\ i <= Len(request.files)
  /\ LET file == request.files[i]
         original_name == file.filename
         filename == secure_filename(original_name)
         ext == Lower(Suffix(filename))
     IN  IF ext \in EXTS
         THEN /\ disk' = (filename :> file.content) @@ disk
              /\ image_paths' = Append(image_paths, filename)
              /\ filename_map' = (filename :> Stem(original_name)) @@ filename_map
         ELSE UNCHANGED << disk, image_paths, filename_map >>
  /\ i' = i + 1
  /\ UNCHANGED << pc, caller, request, opts, response >>
  /\ UNCHANGED pdf_vars
  /\ UNCHANGED pure_vars

\* Lines 180-186: after the loop, the 400 answer for no image, or the call
generate_call ==
  /\ pc = "save"
  /\ i > Len(request.files)
  /\ IF image_paths = <<>>
     THEN /\ response' = Reply(400, "No valid image files uploaded", None)
          /\ pc' = "done"
          /\ UNCHANGED caller
     ELSE /\ caller' = "generate"
          /\ pc' = "pdf_sort"
          /\ UNCHANGED response
  /\ UNCHANGED << request, i, image_paths, filename_map, opts, disk >>
  /\ UNCHANGED pdf_vars
  /\ UNCHANGED pure_vars

\* Lines 186-196: generate_pdf returned or raised; send_file or the 500 answer
generate_respond ==
  /\ pc = "pdf_ret"
  /\ caller = "generate"
  /\ response' = IF ret[1].raised # ""
                 THEN Reply(500, "No images processed", None)
                 ELSE Reply(200, "", output)
  /\ pc' = "done"
  /\ UNCHANGED << request, i >>
  /\ UNCHANGED call_vars
  /\ UNCHANGED pdf_vars
  /\ UNCHANGED pure_vars

(***************************************************************************)
(* generate_pdf                                                            *)
(***************************************************************************)
\* raise <exception>, with no value returned
Raised(exception) == Some([ raised |-> exception, count |-> 0 ])

\* return count
Returned(count) == Some([ raised |-> "", count |-> count ])

\* A call of generate_pdf from outside the handler, on files that exist
generate_pdf_call(paths, d, fmap, o) ==
  /\ pc = "idle"
  /\ caller' = "direct"
  /\ image_paths' = paths
  /\ disk' = d
  /\ filename_map' = fmap
  /\ opts' = o
  /\ pc' = "pdf_sort"
  /\ UNCHANGED handler_vars
  /\ UNCHANGED pdf_vars
  /\ UNCHANGED pure_vars

\* Lines 108-114: load_font returns one of the fonts of the machine; the
\* ranking step
generate_pdf_sort(fonts) ==
  /\ pc = "pdf_sort"
  /\ \E f \in fonts : font' = f
  /\ indexed' = RankStep(image_paths, opts.priority, filename_map)
  /\ processed' = <<>>
  /\ k' = 1
  /\ pc' = "pdf_loop"
  /\ UNCHANGED << warnings, output, ret >>
  /\ UNCHANGED handler_vars
  /\ UNCHANGED call_vars
  /\ UNCHANGED pure_vars

\* Faulty variant of generate_pdf_page: a page that fails ends the loop
generate_pdf_page_abort ==
  /\ pc = "pdf_loop"
  /\ k <= Len(indexed)
  /\ LET p == ordered[k]
     IN  IF DecodeFails(p, disk)
         THEN /\ warnings' = Append(warnings, p)
              /\ k' = Len(indexed) + 1
              /\ UNCHANGED processed
         ELSE /\ processed' = Append(processed,
                                ProcessPage(k, disk[p], p, opts, filename_map, font))
              /\ k' = k + 1
              /\ UNCHANGED warnings
  /\ UNCHANGED << pc, font, indexed, output, ret >>
  /\ UNCHANGED handler_vars
  /\ UNCHANGED call_vars
  /\ UNCHANGED pure_vars

\* Lines 115-128: one turn of `for p in ordered'
generate_pdf_page ==
  /\ pc = "pdf_loop"
  /\ k <= Len(indexed)
  /\ LET p == ordered[k]
     IN  IF DecodeFails(p, disk)
         THEN /\ warnings' = Append(warnings, p)
              /\ UNCHANGED processed
         ELSE /\ processed' = Append(processed,
                                ProcessPage(k, disk[p], p, opts, filename_map, font))
              /\ UNCHANGED warnings
  /\ k' = k + 1
  /\ UNCHANGED << pc, font, indexed, output, ret >>
  /\ UNCHANGED handler_vars
  /\ UNCHANGED call_vars
  /\ UNCHANGED pure_vars

\* Faulty variant of generate_pdf_finish: any failed page raises
generate_pdf_finish_strict ==
  /\ pc = "pdf_loop"
  /\ k > Len(indexed)
  /\ IF processed = <<>> \/ warnings # <<>>
     THEN /\ ret' = Raised("ValueError")
          /\ UNCHANGED output
     ELSE /\ output' = Some(processed)
          /\ ret' = Returned(Len(processed))
  /\ pc' = "pdf_ret"
  /\ UNCHANGED << font, indexed, k, processed, warnings >>
  /\ UNCHANGED handler_vars
  /\ UNCHANGED call_vars
  /\ UNCHANGED pure_vars

\* Lines 130-135: after the loop, the ValueError or the saved document
generate_pdf_finish ==
  /\ pc = "pdf_loop"
  /\ k > Len(indexed)
  /\ IF processed = <<>>
     THEN /\ ret' = Raised("ValueError")
          /\ UNCHANGED output
     ELSE /\ output' = Some(processed)
          /\ ret' = Returned(Len(processed))
  /\ pc' = "pdf_ret"
  /\ UNCHANGED << font, indexed, k, processed, warnings >>
  /\ UNCHANGED handler_vars
  /\ UNCHANGED call_vars
  /\ UNCHANGED pure_vars

(***************************************************************************)
(* Functions called on their own                                           *)
(***************************************************************************)
\* scale_image(im, max_w, max_h) for the arguments in args
scale_call ==
  /\ pc = "scale_call"
  /\ result' = scale_image(args.size, args.max_w, args.max_h)
  /\ pc' = "scale_ret"
  /\ UNCHANGED args
  /\ UNCHANGED handler_vars
  /\ UNCHANGED call_vars
  /\ UNCHANGED pdf_vars

\* The display name of page A or B (digits = args.a or args.b) of the pair
\* in args: a prefix, a first page token (a separator and digits, or
\* nothing), a middle, a second page token or nothing, a suffix
PairName(a, digits) ==
  a.pre \o (IF digits = None THEN <<>> ELSE a.sep \o digits[1])
        \o a.mid \o (IF a.tok2 = None THEN <<>> ELSE a.tok2[1] \o a.num2) \o a.suf

JPG == << ".", "j", "p", "g" >>

\* The ranking step of generate_pdf (lines 109-112) on the two pages of
\* args, stored under their display names, with no filename_map
rank_call ==
  /\ pc = "rank_call"
  /\ image_paths' = << PairName(args, args.a) \o JPG, PairName(args, args.b) \o JPG >>
  /\ opts' = [ opts EXCEPT !.priority = args.priority ]
  /\ indexed' = RankStep(image_paths', args.priority, filename_map)
  /\ result' = Tuple([ j \in 1..2 |->
                          sort_key(<< j - 1, image_paths'[j] >>, args.priority, filename_map) ])
  /\ pc' = "rank_ret"
  /\ UNCHANGED << args, caller, filename_map, disk >>
  /\ UNCHANGED << font, k, processed, warnings, output, ret >>
  /\ UNCHANGED handler_vars

(***************************************************************************)
(* Inputs                                                                  *)
(***************************************************************************)
\* The most uploads in a request, and paths in a direct call
MaxFiles == 2

\* The widest and the highest image scale_image is called on by itself, also
\* the largest max_w and max_h
MaxWidth == 22

MaxHeight == 3

\* The highest line of text of a font
MaxTextH == 2

NoImage == [ ok |-> FALSE, size |-> << 0, 0 >> ]

Image(w, h) == [ ok |-> TRUE, size |-> << w, h >> ]

\* Every list of at most n uploads with these names and contents
Uploads(names, contents, n) ==
  UNION { [ 1..m -> [ filename : names, content : contents ] ] : m \in 0..n }

\* "Dainik Bhaskar Page No 2.jpg"
DainikNo2 == << "D", "a", "i", "n", "i", "k", " ", "B", "h", "a", "s", "k", "a", "r", " ", "P", "a", "g", "e", " ", "N", "o", " ", "2", ".", "j", "p", "g" >>

\* "Dainik Bhaskar Page No. 2.jpg"
DainikNoDot2 == << "D", "a", "i", "n", "i", "k", " ", "B", "h", "a", "s", "k", "a", "r", " ", "P", "a", "g", "e", " ", "N", "o", ".", " ", "2", ".", "j", "p", "g" >>

\* "City Bhaskar.PNG"
CityPNG == << "C", "i", "t", "y", " ", "B", "h", "a", "s", "k", "a", "r", ".", "P", "N", "G" >>

\* "Dainik_Bhaskar_Page_No_2.jpg"
Dainik_No_2 == << "D", "a", "i", "n", "i", "k", "_", "B", "h", "a", "s", "k", "a", "r", "_", "P", "a", "g", "e", "_", "N", "o", "_", "2", ".", "j", "p", "g" >>

\* "ad.jpeg"
AdJpeg == << "a", "d", ".", "j", "p", "e", "g" >>

\* "notes.txt"
NotesTxt == << "n", "o", "t", "e", "s", ".", "t", "x", "t" >>

\* "city bhaskar, Dainik Bhaskar"
CityDainikStr == << "c", "i", "t", "y", " ", "b", "h", "a", "s", "k", "a", "r", ",", " ", "D", "a", "i", "n", "i", "k", " ", "B", "h", "a", "s", "k", "a", "r" >>

\* "News"
NewsStr == << "N", "e", "w", "s" >>

\* "Page No "
PageNoSp == << "P", "a", "g", "e", " ", "N", "o", " " >>

\* "page no."
pagenoDot == << "p", "a", "g", "e", " ", "n", "o", "." >>

\* "PAGENO"
PAGENO == << "P", "A", "G", "E", "N", "O" >>

\* "Page "
PageSp == << "P", "a", "g", "e", " " >>

\* "page."
pageDot == << "p", "a", "g", "e", "." >>

\* "Dainik Bhaskar "
DainikSp == << "D", "a", "i", "n", "i", "k", " ", "B", "h", "a", "s", "k", "a", "r", " " >>

\* "x-"
XDash == << "x", "-" >>

\* " part "
SpPartSp == << " ", "p", "a", "r", "t", " " >>

\* "page no "
pagenoSp == << "p", "a", "g", "e", " ", "n", "o", " " >>

\* "page no 1"
PageNo1 == << "p", "a", "g", "e", " ", "n", "o", " ", "1" >>

\* The requests of Spec: names that rank, tie, collide and are refused, pages
\* that decode or not, the default and a custom priority
RankRequests ==
  [ files : Uploads({ DainikNo2, DainikNoDot2, CityPNG, Dainik_No_2, AdJpeg, NotesTxt, <<>> },
                    { Image(4, 3), NoImage }, MaxFiles),
    form  : [ priority : { None, Some(CityDainikStr) }, all_label : { None },
              max_width : { None }, max_height : { None }, no_label : { None } ] ]

\* The requests of SpecRender: every label, suppression and bound option
RenderRequests ==
  [ files : Uploads({ CityPNG, AdJpeg }, { Image(4, 3), NoImage }, MaxFiles),
    form  : [ priority : { None },
              all_label : { None, Some(<<>>), Some(NewsStr) },
              max_width : { None, Some(<<>>), Some(<< "2" >>) },
              max_height : { None, Some(<< "3" >>) },
              no_label : { None, Some(<< "t", "r", "u", "e" >>) } ] ]

Fonts == [ text_h : 1..MaxTextH ]

OneFont == { [ text_h |-> 1 ] }

\* The direct calls of SpecRender: stored files that decode, do not decode or
\* are missing, no map or a map, any override including the empty string
DirectPaths == { secure_filename(CityPNG), secure_filename(AdJpeg) }

DirectCalls ==
  [ paths : UNION { [ 1..m -> DirectPaths ] : m \in 1..MaxFiles },
    disk  : UNION { [ D -> { Image(4, 3), NoImage } ] : D \in SUBSET DirectPaths },
    fmap  : { <<>>, [ q \in DirectPaths |-> Stem(CityPNG) ] },
    opts  : [ priority : { DEFAULT_PRIORITY },
              all_label : { None, Some(<<>>), Some(NewsStr) },
              font_size : { DefaultFontSize },
              max_w : { None, Some(2) }, max_h : { None },
              no_label : BOOLEAN ] ]

OptBound(n) == { None } \cup { Some(b) : b \in 1..n }

\* The calls of SpecScale, with the example of the specification
ScaleCalls ==
  [ size : (1..MaxWidth) \X (1..MaxHeight), max_w : OptBound(MaxWidth), max_h : OptBound(MaxHeight) ]
    \cup [ size : { << w, w >> : w \in 1..MaxWidth }, max_w : OptBound(MaxWidth), max_h : { None } ]
    \cup [ size : { << 1600, 1000 >> }, max_w : { None, Some(800) }, max_h : { None, Some(800) } ]

\* The first page tokens PAGE_RE matches, and those it does not
SepsWithNo == { PageNoSp, pagenoDot, PAGENO }

SepsWithoutNo == { PageSp, pageDot }

\* The pairs of SpecKey
KeyCalls ==
  [ pre  : { DainikSp, XDash },
    sep  : SepsWithNo \cup SepsWithoutNo,
    a    : { None, Some(<< "1" >>), Some(<< "2" >>), Some(<< "1", "0" >>), Some(<< "0", "2" >>) },
    b    : { None, Some(<< "1" >>), Some(<< "2" >>), Some(<< "1", "0" >>), Some(<< "0", "2" >>) },
    mid  : { <<>>, SpPartSp },
    tok2 : { None, Some(pagenoSp) },
    num2 : { << "7" >> },
    suf  : { <<>>, << "_" >> },
    priority : { DEFAULT_PRIORITY, << PageNo1, DainikSp >> } ]

(***************************************************************************)
(* Specifications                                                          *)
(***************************************************************************)
Init == pc = "idle" /\ Blank /\ args = <<>> /\ result = <<>>

\* The handler with the requests that exercise ranking, failures and names
Next ==
  \/ \E req \in RankRequests : generate_begin(req)
  \/ generate_save
  \/ generate_call
  \/ generate_respond
  \/ generate_pdf_sort(OneFont)
  \/ generate_pdf_page
  \/ generate_pdf_finish

Spec == Init /\ [][Next]_vars

\* The handler and direct calls of generate_pdf with the rendering options
NextRender ==
  \/ \E req \in RenderRequests : generate_begin(req)
  \/ \E c \in DirectCalls : generate_pdf_call(c.paths, c.disk, c.fmap, c.opts)
  \/ generate_save
  \/ generate_call
  \/ generate_respond
  \/ generate_pdf_sort(Fonts)
  \/ generate_pdf_page
  \/ generate_pdf_finish

SpecRender == Init /\ [][NextRender]_vars

\* scale_image on its own
InitScale ==
  /\ pc = "scale_call"
  /\ Blank
  /\ args \in ScaleCalls
  /\ result = <<>>

SpecScale == InitScale /\ [][scale_call]_vars

\* The ranking step on its own, on pairs of names built around page tokens
InitKey ==
  /\ pc = "rank_call"
  /\ Blank
  /\ args \in KeyCalls
  /\ result = <<>>

SpecKey == InitKey /\ [][rank_call]_vars

(***************************************************************************)
(* Vocabulary of the claims                                                *)
(***************************************************************************)
\* generate_pdf has just ranked the batch. Nothing after the ranking step
\* changes indexed, image_paths, filename_map or the options.
JustRanked == pc = "pdf_loop" /\ k = 1

\* generate_pdf is past its ranking step, or has ended
InPdf == pc \in { "pdf_loop", "pdf_ret", "done" } /\ caller # "none"

\* generate_pdf has ended
PdfEnded == pc \in { "pdf_ret", "done" } /\ caller # "none"

\* The display name of the page at input position j (from 1)
DisplayNameAt(j) == NameOf(image_paths[j], filename_map)

\* The place in the ranked order of the page at input position j (from 1)
PlaceOf(j) == CHOOSE x \in 1..Len(indexed) : indexed[x][1] = j - 1

\* The index in P of the first keyword that occurs in name whatever the
\* case, 0 when none occurs
FirstKeyword(name, P) ==
  LET ln == Lower(name)
      hits == { n \in 1..Len(P) : Contains(ln, Lower(P[n])) }
  IN  IF hits = {} THEN 0 ELSE CHOOSE n \in hits : \A m \in hits : n <= m

\* The ranked places below n whose page decodes, ascending
RECURSIVE GoodBelow(_)
GoodBelow(n) ==
  IF n <= 1 THEN <<>>
  ELSE IF DecodeFails(ordered[n - 1], disk)
       THEN GoodBelow(n - 1)
       ELSE Append(GoodBelow(n - 1), n - 1)

\* The pages at the ranked places below n that do not decode, in that order
RECURSIVE BadBelow(_)
BadBelow(n) ==
  IF n <= 1 THEN <<>>
  ELSE IF DecodeFails(ordered[n - 1], disk)
       THEN Append(BadBelow(n - 1), ordered[n - 1])
       ELSE BadBelow(n - 1)

\* The ranked places of the pages in processed
ProcessedPlaces == Tuple([ x \in 1..Len(processed) |-> processed[x].src ])

\* Every page of the batch fails to decode
AllFail == \A j \in 1..Len(image_paths) : DecodeFails(image_paths[j], disk)

\* The uploads generate() kept, in request order: the j-th is the page at
\* input position j
AcceptedUploads == SelectSeq(request.files, LAMBDA f : Accepts(f.filename))

(***************************************************************************)
(* C1  A page whose display name holds a keyword of the priority list      *)
(* ranks before every page whose first keyword comes later in the list or  *)
(* that holds none, whatever the alphabetical order of the names and the   *)
(* input positions.                                                        *)
(***************************************************************************)
C1_PriorityDecidesFirst ==
  JustRanked =>
    \A a, b \in 1..Len(image_paths) :
      LET fa == FirstKeyword(DisplayNameAt(a), opts.priority)
          fb == FirstKeyword(DisplayNameAt(b), opts.priority)
      IN  (fa # 0 /\ (fb = 0 \/ fa < fb)) => PlaceOf(a) < PlaceOf(b)

\* A page uploaded later and alphabetically later is ranked first because
\* its keyword comes earlier in the list.
C1_Witness ==
  /\ JustRanked
  /\ \E a, b \in 1..Len(image_paths) :
       LET fa == FirstKeyword(DisplayNameAt(a), opts.priority)
           fb == FirstKeyword(DisplayNameAt(b), opts.priority)
       IN  /\ fa # 0 /\ fb # 0 /\ fa < fb
           /\ b < a
           /\ StrLess(Lower(DisplayNameAt(b)), Lower(DisplayNameAt(a)))
           /\ PlaceOf(a) < PlaceOf(b)

(***************************************************************************)
(* C3  The ranked order is a permutation of the input in which pages with  *)
(* the same (bucket, base name, page number) keep their input order, and   *)
(* the keys ascend strictly: no two input positions compare equal.         *)
(***************************************************************************)
KeyAt(x) == sort_key(indexed[x], opts.priority, filename_map)

C3_TiesKeepInputOrder ==
  JustRanked =>
    /\ Len(indexed) = Len(image_paths)
    /\ \A j \in 1..Len(image_paths) :
         \E x \in 1..Len(indexed) : indexed[x] = << j - 1, image_paths[j] >>
    /\ \A x, y \in 1..Len(indexed) :
         x < y =>
           /\ KeyLess(KeyAt(x), KeyAt(y))
           /\ SubSeq(KeyAt(x), 1, 3) = SubSeq(KeyAt(y), 1, 3) => indexed[x][1] < indexed[y][1]

\* Two different files with the same bucket, base name and page number
C3_Witness ==
  /\ JustRanked
  /\ \E x, y \in 1..Len(indexed) :
       /\ x < y
       /\ indexed[x][2] # indexed[y][2]
       /\ SubSeq(KeyAt(x), 1, 3) = SubSeq(KeyAt(y), 1, 3)
       /\ indexed[x][1] < indexed[y][1]

(***************************************************************************)
(* C4  At every turn of the loop of generate_pdf the processed pages are   *)
(* exactly the pages ranked so far that decode, in ranked order, and the   *)
(* warnings name exactly those that do not; the loop visits every page;    *)
(* the document written is the processed pages and the count returned is   *)
(* their number.                                                           *)
(***************************************************************************)
C4_FailuresAreSkipped ==
  InPdf =>
    /\ ProcessedPlaces = GoodBelow(k)
    /\ warnings = BadBelow(k)
    /\ PdfEnded =>
         /\ k = Len(indexed) + 1
         /\ ret[1].raised = "" =>
              /\ output = Some(processed)
              /\ ret[1].count = Len(GoodBelow(Len(indexed) + 1))

\* The first ranked page fails and a later one is in the document
C4_Witness ==
  /\ PdfEnded
  /\ Len(indexed) >= 2
  /\ DecodeFails(ordered[1], disk)
  /\ ~DecodeFails(ordered[2], disk)
  /\ ret[1].raised = ""
  /\ ret[1].count = 1
  /\ output = Some(processed)
  /\ processed[1].src = 2

(***************************************************************************)
(* C5  generate_pdf raises exactly when every page fails to decode; then   *)
(* no document is written and the handler answers with one error and no    *)
(* file; otherwise a document is written and the handler sends it.         *)
(***************************************************************************)
C5_ErrorOnlyWhenNothingProcessed ==
  /\ (pc = "pdf_loop" => output = None)
  /\ PdfEnded =>
       /\ (ret[1].raised # "") <=> AllFail
       /\ (ret[1].raised # "") <=> (processed = <<>>)
       /\ AllFail => output = None
       /\ ~AllFail => output = Some(processed)
       /\ (pc = "done" /\ caller = "generate") =>
            IF AllFail
            THEN /\ response[1].status = 500
                 /\ response[1].error # ""
                 /\ response[1].file = None
            ELSE /\ response[1].status = 200
                 /\ response[1].error = ""
                 /\ response[1].file = output

\* Two pages, neither decodes, and the handler has answered
C5_Witness ==
  /\ pc = "done"
  /\ caller = "generate"
  /\ Len(image_paths) = 2
  /\ AllFail
  /\ warnings = ordered
  /\ response[1].status = 500
  /\ output = None

(***************************************************************************)
(* C10 (as claimed)  In the handler, the name that ranks and labels the    *)
(* page of an accepted upload is the stem of that upload's own original    *)
(* filename.                                                               *)
(***************************************************************************)
C10_OwnOriginalName ==
  (InPdf /\ caller = "generate") =>
    /\ \A j \in 1..Len(image_paths) :
         DisplayNameAt(j) = Stem(AcceptedUploads[j].filename)
    /\ \A x \in 1..Len(processed) :
         processed[x].label
           = Some(Stem(AcceptedUploads[indexed[processed[x].src][1] + 1].filename))

(***************************************************************************)
(* C7 (as claimed)  When labels are drawn, the label of a page is the      *)
(* override when one is given and is not empty, and the display name of    *)
(* the page otherwise, an empty override passed to generate_pdf included.  *)
(***************************************************************************)
PageNameOf(x) == NameOf(ordered[x.src], filename_map)

C7_EmptyOverrideMeansName ==
  (InPdf /\ ~opts.no_label) =>
    \A n \in 1..Len(processed) :
      processed[n].label
        = Some(IF opts.all_label # None /\ opts.all_label[1] # <<>>
               THEN opts.all_label[1]
               ELSE PageNameOf(processed[n]))

(***************************************************************************)
(* C7 (amended)  When labels are drawn, generate_pdf labels every page     *)
(* with the override whenever the override is not None, the empty string   *)
(* included, and with the display name of the page only when it is None.   *)
(* The handler turns an absent or empty all_label field into None, so a    *)
(* request labels its pages with the field when it is not empty and with   *)
(* their display names otherwise.                                          *)
(***************************************************************************)
C7_OverrideUnlessNone ==
  (InPdf /\ ~opts.no_label) =>
    \A n \in 1..Len(processed) :
      /\ processed[n].label
           = Some(IF opts.all_label # None
                  THEN opts.all_label[1]
                  ELSE PageNameOf(processed[n]))
      /\ caller = "generate" =>
           processed[n].label
             = Some(IF request.form.all_label \notin { None, Some(<<>>) }
                    THEN request.form.all_label[1]
                    ELSE PageNameOf(processed[n]))

\* A direct call with the empty string as override: the page that has a
\* name is labelled with the empty string
C7_Witness ==
  /\ InPdf
  /\ caller = "direct"
  /\ ~opts.no_label
  /\ opts.all_label = Some(<<>>)
  /\ processed # <<>>
  /\ processed[1].label = Some(<<>>)
  /\ PageNameOf(processed[1]) # <<>>

(***************************************************************************)
(* C8  Every page of the output has the width that scale_image returns.    *)
(* With no_label its height is the scaled height and the output has as     *)
(* many pages as the input has pages that decode; without no_label its     *)
(* height is the scaled height plus the text height plus 2 x 10.           *)
(***************************************************************************)
ScaledOf(x) == scale_image(disk[ordered[x.src]].size, opts.max_w, opts.max_h)

Decodable == { j \in 1..Len(image_paths) : ~DecodeFails(image_paths[j], disk) }

NameA == PairName(args, args.a)
NameB == PairName(args, args.b)

\* Page A is ranked first
AFirst == indexed[1][1] = 0

SameBucket == FirstKeyword(NameA, args.priority) = FirstKeyword(NameB, args.priority)

StripChars == { "-", " ", "_" }

\* The number of a page whose first token has the digits d, when a token
\* is "page", "no", digits: that of the first token when it holds "no",
\* else that of the second token, else 0
NumberWithNo(d) ==
  IF args.sep \in SepsWithNo /\ d # None THEN IntOf(d[1])
  ELSE IF args.tok2 # None THEN IntOf(args.num2)
  ELSE 0

\* The number of that page when a token is "page", digits
NumberWithoutNo(d) == IF d # None THEN IntOf(d[1]) ELSE 0

(***************************************************************************)
(* C2 (as claimed)  The page number of a name is the integer after the     *)
(* first "page", optional whitespace, optional ".", optional whitespace,   *)
(* and 0 when there is none; two names of one bucket that differ in that   *)
(* number only are ranked by it, numerically ascending.                    *)
(***************************************************************************)
C2_NumberAfterPage ==
  (pc = "rank_ret" /\ args.sep \in SepsWithoutNo /\ args.tok2 = None) =>
    /\ result[1][3] = NumberWithoutNo(args.a)
    /\ result[2][3] = NumberWithoutNo(args.b)
    /\ SameBucket => (AFirst <=> NumberWithoutNo(args.a) <= NumberWithoutNo(args.b))

(***************************************************************************)
(* C2 (amended)  The page number of a name is the integer after the first  *)
(* "page", optional whitespace, "no", optional ".", optional whitespace,   *)
(* whatever the case, and 0 when there is none; two names of one bucket    *)
(* that differ in that number only are ranked by it, numerically           *)
(* ascending, a name without it first.  Digits after "page" without "no"   *)
(* are no page number: they stay in the base name.                         *)
(***************************************************************************)
C2_NumberAfterPageNo ==
  pc = "rank_ret" =>
    /\ result[1][3] = NumberWithNo(args.a)
    /\ result[2][3] = NumberWithNo(args.b)
    /\ (args.sep \in SepsWithNo /\ SameBucket) =>
         (AFirst <=> NumberWithNo(args.a) <= NumberWithNo(args.b))
    /\ (args.sep \in SepsWithoutNo /\ args.tok2 = None) =>
         /\ result[1][2] = Strip(Lower(NameA), StripChars)
         /\ result[2][2] = Strip(Lower(NameB), StripChars)

\* "... Page No 10" given before "... Page No 2" and ranked after it
C2_Witness ==
  /\ pc = "rank_ret"
  /\ args.sep = PageNoSp
  /\ args.tok2 = None
  /\ args.a = Some(<< "1", "0" >>)
  /\ args.b = Some(<< "2" >>)
  /\ SameBucket
  /\ result[1][3] = 10
  /\ result[2][3] = 2
  /\ ~AFirst

(***************************************************************************)
(* C9 (as claimed)  For a name with two page tokens the page number is     *)
(* that of the first and the base name is the lowercased name without the  *)
(* first token, the second left in place, stripped of "-", "_" and " ".    *)
(***************************************************************************)
TwoTokens == args.sep \in SepsWithNo /\ args.a # None /\ args.tok2 # None

C9_OnlyFirstTokenRemoved ==
  (pc = "rank_ret" /\ TwoTokens) =>
    /\ result[1][3] = IntOf(args.a[1])
    /\ result[1][2]
         = Strip(Lower(args.pre \o args.mid \o args.tok2[1] \o args.num2 \o args.suf),
                 StripChars)

(***************************************************************************)
(* C9 (amended)  For a name with two page tokens the page number is that   *)
(* of the first and the base name is the lowercased name without any of    *)
(* its tokens, stripped of "-", "_" and " ".                               *)
(***************************************************************************)
C9_EveryTokenRemoved ==
  (pc = "rank_ret" /\ TwoTokens) =>
    /\ result[1][3] = IntOf(args.a[1])
    /\ result[1][2] = Strip(Lower(args.pre \o args.mid \o args.suf), StripChars)

\* "Dainik Bhaskar Page No 10 part page no 7": number 10, base
\* "dainik bhaskar  part"
C9_Witness ==
  /\ pc = "rank_ret"
  /\ TwoTokens
  /\ args.pre = DainikSp
  /\ args.sep = PageNoSp
  /\ args.a = Some(<< "1", "0" >>)
  /\ args.mid = SpPartSp
  /\ args.suf = <<>>
  /\ result[1][3] = 10
  /\ result[1][2] = Lower(DainikSp) \o << " ", "p", "a", "r", "t" >>

(***************************************************************************)
(* C6 (as claimed)  scale_image never returns a larger width or height;    *)
(* with no bound set or none exceeded it returns the size it was given;    *)
(* with a bound exceeded it returns both dimensions multiplied by the      *)
(* least bound/dimension over the exceeded bounds, truncated.              *)
(***************************************************************************)
C6_ExactScaling ==
  pc = "scale_ret" =>
    LET w == args.size[1]
        h == args.size[2]
        overW == args.max_w # None /\ w > args.max_w[1]
        overH == args.max_h # None /\ h > args.max_h[1]
        \* the least ratio, as a fraction
        byW == overW /\ (overH => args.max_w[1] * h <= args.max_h[1] * w)
        num == IF byW THEN args.max_w[1] ELSE args.max_h[1]
        den == IF byW THEN w ELSE h
    IN  /\ result[1] <= w
        /\ result[2] <= h
        /\ (~overW /\ ~overH) => result = args.size
        /\ (overW \/ overH) => result = << (w * num) \div den, (h * num) \div den >>

\* What holds of scale_image in every call: it never enlarges, and returns
\* the size it was given when no set bound is exceeded
ScaleNeverEnlarges ==
  pc = "scale_ret" =>
    /\ result[1] <= args.size[1]
    /\ result[2] <= args.size[2]
    /\ ((args.max_w = None \/ args.size[1] <= args.max_w[1])
          /\ (args.max_h = None \/ args.size[2] <= args.max_h[1])) => result = args.size

====
